---------------------------- MODULE Spec2Model ----------------------------
(***************************************************************************)
(* Token-bucket rate limiter of the project-management API                 *)
(* (src/src/middlewares/tokenBucketLimiter.ts, rateLimiter.ts).            *)
(*                                                                         *)
(* Number representation.  The code keeps tokens as a JavaScript number    *)
(* and timestamps as integer milliseconds (Date.now()).  The model keeps   *)
(* every token quantity as an integer count of "units": a config carries   *)
(*   unit        units per token,                                          *)
(*   capacity    config.capacity   expressed in units,                     *)
(*   refillRate  config.refillRate expressed in units per millisecond,     *)
(* so capacity(tokens) = capacity / unit and refillRate(tokens/second) =   *)
(* 1000 * refillRate / unit.  The model computes every value as the exact   *)
(* rational; Math.floor and Math.ceil become integer division.  The        *)
(* rounding of the code's IEEE-754 doubles is not modelled.  The clock is   *)
(* non-decreasing.                                                         *)
(***************************************************************************)
EXTENDS Integers, FiniteSets, Sequences, TLC

VARIABLES
    config,     \* the RateLimitConfig the limiter was constructed with
    buckets,    \* TokenBucketRateLimiter.buckets : Map<string, TokenBucket>
    now,        \* Date.now(), milliseconds
    ticks,      \* number of clock advances so far (bounds the run)
    result,     \* observation: the call that returned last at this instant, if any
    burst,      \* per key: the checks made since the clock last moved / the key was last reset
    life,       \* per key: checks and admissions since the key was first seen
    pending,    \* per key: requests that arrived and wait for the event loop
    responses,  \* per key: number of next() calls and of 429 responses
    limiters,   \* the module-level limiters of rateLimiter.ts: policy -> buckets Map
    exchange,   \* observation: the last HTTP request and what was done with it
    requests,   \* number of HTTP requests served so far (bounds the run)
    db,         \* the database: the users and the RefreshTokenRecord table
    tokenCalls, \* the TokenService calls that wait for the database
    outcome,    \* observation: the TokenService call that returned last
    history     \* observation: tokens issued, revoked and swept so far

vars == <<config, buckets, now, ticks, result, burst, life, pending, responses,
          limiters, exchange, requests, db, tokenCalls, outcome, history>>

\* the state of the TokenService and of its database
tokenVars == <<db, tokenCalls, outcome, history>>

\* the state of rateLimiter.ts and of the HTTP layer
httpVars == <<limiters, exchange, requests>>

\* the state of the limiter driven by direct calls
callVars == <<config, buckets, result, burst, life, pending, responses>>

-----------------------------------------------------------------------------
(* Bounds *)

MaxTicks == 2
ExtraCalls == 3
MaxResets == 1
MaxPending == 3
MaxAway == 1
MaxRequests == 6
MaxInvocations == 4
MaxOps == 4
MaxInFlight == 2
SmallUnit == 4
SmallCapacityUnits == 10

-----------------------------------------------------------------------------
(* Arithmetic helpers: Math.min, Math.floor, Math.ceil on rationals a/b, b > 0 *)

Min(a, b) == IF a <= b THEN a ELSE b

FloorDiv(a, b) == a \div b

CeilDiv(a, b) == -((-a) \div b)

-----------------------------------------------------------------------------
(* Configurations *)

\* new TokenBucketRateLimiter({capacity: c, refillRate: n / d}) with the
\* capacity c = capNum / capDen tokens and n / d tokens per second.
RateLimitConfig(capNum, capDen, rateNum, rateDen) ==
    [unit       |-> 1000 * rateDen * capDen,
     capacity   |-> capNum * 1000 * rateDen,
     refillRate |-> rateNum * capDen]

\* authBucket: capacity 5, refillRate 5 / (15 * 60)
authBucket == RateLimitConfig(5, 1, 5, 15 * 60)

\* generalBucket: capacity 100, refillRate 100 / (15 * 60)
generalBucket == RateLimitConfig(100, 1, 100, 15 * 60)

\* writeBucket: capacity 20, refillRate 20 / 60
writeBucket == RateLimitConfig(20, 1, 20, 60)

\* healthBucket: capacity 1000, refillRate 1000 / 60
healthBucket == RateLimitConfig(1000, 1, 1000, 60)

\* the four policies of rateLimiter.ts
Policies == {"general", "auth", "write", "health"}

\* the limiter instance each middleware closes over
bucketOf(p) ==
    CASE p = "general" -> generalBucket
      [] p = "auth"    -> authBucket
      [] p = "write"   -> writeBucket
      [] p = "health"  -> healthBucket

\* the string literal each middleware passes as RateLimit-Limit, as its
\* decimal digits: '100', '5', '20', '1000'
limitHeader(p) ==
    CASE p = "general" -> <<1, 0, 0>>
      [] p = "auth"    -> <<5>>
      [] p = "write"   -> <<2, 0>>
      [] p = "health"  -> <<1, 0, 0, 0>>

\* the error text of each middleware's 429 body
tooManyError(p) ==
    CASE p = "general" -> "Too many requests from this IP, please try again later."
      [] p = "auth"    -> "Too many login attempts, please try again after 15 minutes."
      [] p = "write"   -> "Too many write requests, please try again later."
      [] p = "health"  -> "Too many health check requests."

\* req.ip of the requests: an address, or "" when express knows none
Ips == {"1.2.3.4", ""}

\* a limiter constructed with a fractional capacity (SmallCapacityUnits /
\* SmallUnit tokens) and a refillRate of one token per SmallUnit milliseconds
smallBucket ==
    [unit |-> SmallUnit, capacity |-> SmallCapacityUnits, refillRate |-> 1]

\* req.ip || 'unknown'
ClientIds == {"1.2.3.4", "unknown"}

\* milliseconds in which one token accrues: 1000 / refillRate
MsPerToken(cfg) == cfg.unit \div cfg.refillRate

\* floor(capacity) in tokens
FloorCapacity(cfg) == FloorDiv(cfg.capacity, cfg.unit)

\* an idle period longer than the time an empty bucket needs to fill
LongIdle(cfg) == CeilDiv(cfg.capacity, cfg.refillRate) + MsPerToken(cfg)

\* the number of limiter calls of a run: enough to drain a full bucket and go on
MaxCalls(cfg) == FloorCapacity(cfg) + ExtraCalls

\* a third of the time in which one token accrues (rounded up to milliseconds)
Slice(cfg) == CeilDiv(MsPerToken(cfg), 3)

\* the time in which half of the capacity accrues
HalfWindow(cfg) == CeilDiv(cfg.capacity, 2 * cfg.refillRate)

\* the amounts by which the clock advances between two calls
Delays(cfg) == {Slice(cfg), MsPerToken(cfg), LongIdle(cfg)}

-----------------------------------------------------------------------------
(* JSON web tokens and the RefreshTokenRecord table *)

\* the registered users, by id
Users == {1, 2}

\* expiresIn: '7d' of the refresh JWT, in seconds
RefreshTokenSeconds == 7 * 24 * 60 * 60

\* expiresIn: '15m' of the access JWT, in seconds
AccessTokenSeconds == 15 * 60

\* expiresAt.setDate(expiresAt.getDate() + 7), in milliseconds
RefreshRecordMs == 7 * 24 * 60 * 60 * 1000

\* jwt.sign({id, email}, JWT_SECRET, {expiresIn}) at time t: the token is
\* determined by the payload, the issue second and the expiry second (the
\* email is determined by the user id)
jwtSign(userId, lifeSeconds, t) ==
    [id  |-> userId,
     iat |-> FloorDiv(t, 1000),
     exp |-> FloorDiv(t, 1000) + lifeSeconds,
     sig |-> "JWT_SECRET"]

\* a string that is no token signed by this server
NotAJwt == [id |-> 0, iat |-> 0, exp |-> 0, sig |-> "none"]

\* jwt.verify that does not look at exp
jwtVerifyIgnoringExpiry(token, t) == token.sig = "JWT_SECRET"

\* jwt.verify(token, JWT_SECRET) at time t does not throw: the signature is
\* ours and the current second is before exp
jwtVerify(token, t) ==
    /\ token.sig = "JWT_SECRET"
    /\ FloorDiv(t, 1000) < token.exp

\* prisma.refreshTokenRecord.findUnique({where: {token}}): <<>> for null
findUnique(records, token) ==
    IF token \in DOMAIN records THEN <<records[token]>> ELSE <<>>

\* prisma.refreshTokenRecord.create with revokedAt: null
create(records, token, userId, expiresAt) ==
    [k \in DOMAIN records \cup {token} |->
        IF k = token
        THEN [userId |-> userId, expiresAt |-> expiresAt, revokedAt |-> <<>>]
        ELSE records[k]]

\* prisma.refreshTokenRecord.update({where: {token}, data: {revokedAt}})
update(records, token, t) ==
    [records EXCEPT ![token].revokedAt = <<t>>]

\* the records updateMany({where: {userId}}) matches
matching(records, userId) ==
    {k \in DOMAIN records : records[k].userId = userId}

\* updateMany that matches the records of every user
updateManyEveryUser(records, userId, t) ==
    [k \in DOMAIN records |-> [records[k] EXCEPT !.revokedAt = <<t>>]]

\* prisma.refreshTokenRecord.updateMany({where: {userId}, data: {revokedAt}})
updateMany(records, userId, t) ==
    [k \in DOMAIN records |->
        IF k \in matching(records, userId)
        THEN [records[k] EXCEPT !.revokedAt = <<t>>]
        ELSE records[k]]

\* ON DELETE CASCADE of RefreshTokenRecord_userId_fkey
deleteCascade(records, userId) ==
    [k \in DOMAIN records \ matching(records, userId) |-> records[k]]

\* a verification that uses the token up: its record is marked revoked
rotateOnUse(records, token, t) ==
    IF token \in DOMAIN records
    THEN [records EXCEPT ![token].revokedAt = <<t>>]
    ELSE records

\* what verifyRefreshToken writes to the table: it calls jwt.verify and
\* findUnique only, no create, update or delete
afterVerify(records, token, t) == records

\* the checks of verifyRefreshToken without the revocation check
verdictExpiryOnly(found, token, t) ==
    IF found = <<>>
    THEN [ok |-> FALSE, status |-> 401, message |-> "Refresh token not found"]
    ELSE IF t > found[1].expiresAt
    THEN [ok |-> FALSE, status |-> 401, message |-> "Refresh token has expired"]
    ELSE [ok |-> TRUE, status |-> 0, message |-> ""]

\* the checks verifyRefreshToken makes on what findUnique returned, at time t
verdict(found, token, t) ==
    IF found = <<>>
    THEN [ok |-> FALSE, status |-> 401, message |-> "Refresh token not found"]
    ELSE IF found[1].revokedAt # <<>>
    THEN [ok |-> FALSE, status |-> 401, message |-> "Refresh token has been revoked"]
    ELSE IF t > found[1].expiresAt
    THEN [ok |-> FALSE, status |-> 401, message |-> "Refresh token has expired"]
    ELSE [ok |-> TRUE, status |-> 0, message |-> ""]

-----------------------------------------------------------------------------
(* The bucket store: Map<string, TokenBucket> as a function on the keys present *)

\* Map.prototype.has
has(store, clientId) == clientId \in DOMAIN store

\* set that loses the write when the key already has a bucket
setLost(store, clientId, bucket) ==
    IF clientId \in DOMAIN store
    THEN store
    ELSE [k \in DOMAIN store \cup {clientId} |->
             IF k = clientId THEN bucket ELSE store[k]]

\* set that keeps the written entry only and evicts every other key
setEvicting(store, clientId, bucket) ==
    [k \in {clientId} |-> bucket]

\* Map.prototype.set
set(store, clientId, bucket) ==
    [k \in DOMAIN store \cup {clientId} |->
        IF k = clientId THEN bucket ELSE store[k]]

\* delete that clears the whole map
deleteAll(store, clientId) == <<>>

\* delete that removes nothing
deleteNothing(store, clientId) == store

\* Map.prototype.delete: removes the key if present, otherwise does nothing
delete(store, clientId) ==
    [k \in DOMAIN store \ {clientId} |-> store[k]]

-----------------------------------------------------------------------------
(* TokenBucketRateLimiter.isAllowed, step by step *)

\* creation of an empty instead of a full bucket
getOrCreateEmpty(store, clientId, cfg, t) ==
    IF clientId \in DOMAIN store
    THEN store[clientId]
    ELSE [tokens |-> 0, lastRefillTime |-> t]

\* "Get or create bucket for this client"
getOrCreate(store, clientId, cfg, t) ==
    IF has(store, clientId)
    THEN store[clientId]
    ELSE [tokens |-> cfg.capacity, lastRefillTime |-> t]

\* tokensToAdd with the elapsed time taken as lastRefillTime - now
tokensToAddReversed(bucket, cfg, t) ==
    (bucket.lastRefillTime - t) * cfg.refillRate

\* timePassed * refillRate, in units
tokensToAdd(bucket, cfg, t) ==
    (t - bucket.lastRefillTime) * cfg.refillRate

\* refill that counts the elapsed time only and forgets the stored tokens
refillElapsedOnly(bucket, cfg, t) ==
    [tokens         |-> Min(cfg.capacity, tokensToAdd(bucket, cfg, t)),
     lastRefillTime |-> t]

\* refill without the clamp to capacity
refillUnclamped(bucket, cfg, t) ==
    [tokens         |-> bucket.tokens + tokensToAdd(bucket, cfg, t),
     lastRefillTime |-> t]

\* refill that does not stamp the time of the call
refillNoStamp(bucket, cfg, t) ==
    [tokens         |-> Min(cfg.capacity, bucket.tokens + tokensToAdd(bucket, cfg, t)),
     lastRefillTime |-> bucket.lastRefillTime]

\* refill that fills the bucket up as soon as any time has passed
refillToCapacity(bucket, cfg, t) ==
    [tokens         |-> IF t > bucket.lastRefillTime THEN cfg.capacity ELSE bucket.tokens,
     lastRefillTime |-> t]

\* "Update bucket": clamp to capacity, stamp the time of the call
refill(bucket, cfg, t) ==
    [tokens         |-> Min(cfg.capacity, bucket.tokens + tokensToAdd(bucket, cfg, t)),
     lastRefillTime |-> t]

\* "Check if request is allowed": bucket.tokens >= 1
hasToken(bucket, cfg) == bucket.tokens >= cfg.unit

\* consumption of two tokens per admitted request
consumeTwo(bucket, cfg) == [bucket EXCEPT !.tokens = @ - 2 * cfg.unit]

\* bucket.tokens -= 1
consume(bucket, cfg) == [bucket EXCEPT !.tokens = @ - cfg.unit]

\* an allowed decision whose resetTime is the wait for the next whole token
allowedDecisionNextToken(bucket, cfg) ==
    [allowed         |-> TRUE,
     tokensRemaining |-> FloorDiv(bucket.tokens, cfg.unit),
     resetTime       |-> IF bucket.tokens >= cfg.unit THEN 0
                         ELSE CeilDiv(cfg.unit - bucket.tokens, 1000 * cfg.refillRate)]

\* an allowed decision that rounds the remaining tokens up
allowedDecisionRoundedUp(bucket, cfg) ==
    [allowed         |-> TRUE,
     tokensRemaining |-> CeilDiv(bucket.tokens, cfg.unit),
     resetTime       |-> CeilDiv(cfg.capacity - bucket.tokens, 1000 * cfg.refillRate)]

\* the decision of the allowed branch, computed on the bucket after consumption;
\* resetTime = ceil((capacity - tokens) / refillRate), seconds
allowedDecision(bucket, cfg) ==
    [allowed         |-> TRUE,
     tokensRemaining |-> FloorDiv(bucket.tokens, cfg.unit),
     resetTime       |-> CeilDiv(cfg.capacity - bucket.tokens, 1000 * cfg.refillRate)]

\* a denied decision whose resetTime is the wait for a full bucket
deniedDecisionUntilFull(bucket, cfg) ==
    [allowed         |-> FALSE,
     tokensRemaining |-> 0,
     resetTime       |-> CeilDiv(cfg.capacity - bucket.tokens, cfg.refillRate)]

\* a denied decision whose resetTime is in seconds, like the allowed one
deniedDecisionSeconds(bucket, cfg) ==
    [allowed         |-> FALSE,
     tokensRemaining |-> 0,
     resetTime       |-> CeilDiv(cfg.unit - bucket.tokens, 1000 * cfg.refillRate)]

\* the decision of the denied branch;
\* resetTime = ceil(((1 - tokens) / refillRate) * 1000), milliseconds
deniedDecision(bucket, cfg) ==
    [allowed         |-> FALSE,
     tokensRemaining |-> 0,
     resetTime       |-> CeilDiv(cfg.unit - bucket.tokens, cfg.refillRate)]

\* isAllowed that reports a key without a bucket as an error instead of
\* creating the bucket
isAllowedCallKnownOnly(store, clientId, cfg, t) ==
    IF ~has(store, clientId)
    THEN [buckets  |-> store,
          decision |-> [error |-> "unknown client"],
          refilled |-> 0]
    ELSE LET refilled == refill(store[clientId], cfg, t)
         IN  IF hasToken(refilled, cfg)
             THEN [buckets  |-> set(store, clientId, consume(refilled, cfg)),
                   decision |-> allowedDecision(consume(refilled, cfg), cfg),
                   refilled |-> refilled.tokens]
             ELSE [buckets  |-> set(store, clientId, refilled),
                   decision |-> deniedDecision(refilled, cfg),
                   refilled |-> refilled.tokens]

\* isAllowed that stamps lastRefillTime on the allowed branch only
isAllowedCallStampWhenAllowed(store, clientId, cfg, t) ==
    LET created  == getOrCreate(store, clientId, cfg, t)
        refilled == refill(created, cfg, t)
    IN  IF hasToken(refilled, cfg)
        THEN LET spent == consume(refilled, cfg)
             IN  [buckets  |-> set(store, clientId, spent),
                  decision |-> allowedDecision(spent, cfg),
                  refilled |-> refilled.tokens]
        ELSE [buckets  |-> set(store, clientId,
                               [refilled EXCEPT
                                   !.lastRefillTime = created.lastRefillTime]),
              decision |-> deniedDecision(refilled, cfg),
              refilled |-> refilled.tokens]

\* isAllowed(clientId) at time t: the store it leaves, the decision it returns,
\* and (for observation) the tokens right after the refill step
isAllowedCall(store, clientId, cfg, t) ==
    LET created  == getOrCreate(store, clientId, cfg, t)
        refilled == refill(created, cfg, t)
    IN  IF hasToken(refilled, cfg)
        THEN LET spent == consume(refilled, cfg)
             IN  [buckets  |-> set(store, clientId, spent),
                  decision |-> allowedDecision(spent, cfg),
                  refilled |-> refilled.tokens]
        ELSE [buckets  |-> set(store, clientId, refilled),
              decision |-> deniedDecision(refilled, cfg),
              refilled |-> refilled.tokens]

\* resetBucket(clientId): this.buckets.delete(clientId)
resetBucketCall(store, clientId) == delete(store, clientId)

-----------------------------------------------------------------------------
(* Observation records *)

NoResult ==
    [op |-> "none", clientId |-> "", at |-> 0, prev |-> <<>>, afterReset |-> FALSE,
     refilled |-> 0, allowed |-> FALSE, tokensRemaining |-> 0, resetTime |-> 0]

NoBurst ==
    [checks |-> 0, allowed |-> 0, fresh |-> FALSE, held |-> 0, idle |-> 0,
     queued |-> 0]

\* no TokenService call has returned yet
NoOutcome ==
    [op |-> "none", token |-> NotAJwt, user |-> 0, ok |-> FALSE, status |-> 0,
     message |-> "", returns |-> {}, count |-> 0, found |-> FALSE,
     afterRevoke |-> FALSE, afterLogoutAll |-> FALSE, again |-> FALSE]

\* nothing was issued, revoked or verified yet
NoHistory ==
    [ops |-> 0, issued |-> {}, revoked |-> {}, swept |-> {}, logoutAlls |-> 0,
     passed |-> {}]

\* no request was served yet
NoExchange ==
    [class |-> "none", ip |-> "", at |-> 0, consulted |-> <<>>, handled |-> FALSE]

NoLife ==
    [checks |-> 0, allowed |-> 0, firstSeen |-> -1, resets |-> 0,
     lastOp |-> "none", dropped |-> "nothing"]

\* isAllowed calls made so far, over all keys
TotalChecks(l) == l["1.2.3.4"].checks + l["unknown"].checks

\* requests waiting for the event loop, over all keys
TotalPending(p) == p["1.2.3.4"] + p["unknown"]

\* resetBucket calls made so far, over all keys
TotalResets(l) == l["1.2.3.4"].resets + l["unknown"].resets

\* limiter calls made so far
TotalCalls(l) == TotalChecks(l) + TotalResets(l)

\* the key's bucket before a call: <<>> when the key has no bucket
prevOf(store, clientId) ==
    IF has(store, clientId) THEN <<store[clientId]>> ELSE <<>>

\* what a resetBucket call removed: "nothing", a bucket that was "drained"
\* (less than one token) or one with a token "left"
droppedBy(store, clientId) ==
    IF ~has(store, clientId) THEN "nothing"
    ELSE IF store[clientId].tokens < config.unit THEN "drained" ELSE "left"

\* the burst record of a key after one more check of it; q is the number of
\* requests of the key that were waiting when the check ran
burstAfter(b, store, clientId, call, t, q) ==
    [checks  |-> b.checks + 1,
     allowed |-> b.allowed + (IF call.decision.allowed THEN 1 ELSE 0),
     fresh   |-> IF b.checks = 0 THEN ~has(store, clientId) ELSE b.fresh,
     held    |-> IF b.checks = 0 THEN call.refilled ELSE b.held,
     idle    |-> IF b.checks > 0 THEN b.idle
                 ELSE IF has(store, clientId)
                      THEN t - store[clientId].lastRefillTime ELSE 0,
     queued  |-> IF b.checks = 0 THEN q ELSE b.queued]

lifeAfter(l, call, t) ==
    [checks    |-> l.checks + 1,
     allowed   |-> l.allowed + (IF call.decision.allowed THEN 1 ELSE 0),
     firstSeen |-> IF l.firstSeen < 0 THEN t ELSE l.firstSeen,
     resets    |-> l.resets,
     lastOp    |-> "isAllowed",
     dropped   |-> l.dropped]

-----------------------------------------------------------------------------
(* The limiter driven by direct calls *)

\* the state right after new TokenBucketRateLimiter(cfg)
Constructed(cfg) ==
    /\ config = cfg
    /\ buckets = <<>>
    /\ now = 0
    /\ ticks = 0
    /\ result = NoResult
    /\ burst = [k \in ClientIds |-> NoBurst]
    /\ life = [k \in ClientIds |-> NoLife]
    /\ pending = [k \in ClientIds |-> 0]
    /\ responses = [k \in ClientIds |-> [next |-> 0, tooMany |-> 0]]
    /\ limiters = [p \in Policies |-> <<>>]
    /\ exchange = NoExchange
    /\ requests = 0
    /\ db = [users |-> Users, records |-> <<>>]
    /\ tokenCalls = {}
    /\ outcome = NoOutcome
    /\ history = NoHistory

Init == Constructed(smallBucket)

\* one call of limiter.isAllowed(clientId)
isAllowed(clientId) ==
    /\ TotalCalls(life) < MaxCalls(config)
    /\ LET call == isAllowedCall(buckets, clientId, config, now)
       IN  /\ buckets' = call.buckets
           /\ result' = [op |-> "isAllowed", clientId |-> clientId, at |-> now,
                         prev |-> prevOf(buckets, clientId),
                         afterReset |-> life[clientId].lastOp = "resetBucket",
                         refilled |-> call.refilled,
                         allowed |-> call.decision.allowed,
                         tokensRemaining |-> call.decision.tokensRemaining,
                         resetTime |-> call.decision.resetTime]
           /\ burst' = [burst EXCEPT ![clientId] =
                            burstAfter(@, buckets, clientId, call, now, 0)]
           /\ life' = [life EXCEPT ![clientId] = lifeAfter(@, call, now)]
    /\ UNCHANGED <<config, now, ticks, pending, responses>>
    /\ UNCHANGED httpVars
    /\ UNCHANGED tokenVars

\* one call of limiter.resetBucket(clientId)
resetBucket(clientId) ==
    /\ TotalResets(life) < MaxResets
    /\ TotalCalls(life) < MaxCalls(config)
    /\ buckets' = resetBucketCall(buckets, clientId)
    /\ result' = [NoResult EXCEPT !.op = "resetBucket", !.clientId = clientId,
                                  !.at = now, !.prev = prevOf(buckets, clientId)]
    /\ burst' = [burst EXCEPT ![clientId] = NoBurst]
    /\ life' = [life EXCEPT ![clientId].resets = @ + 1,
                         ![clientId].lastOp = "resetBucket",
                         ![clientId].dropped = droppedBy(buckets, clientId)]
    /\ UNCHANGED <<config, now, ticks, pending, responses>>
    /\ UNCHANGED httpVars
    /\ UNCHANGED tokenVars

\* wall-clock time passes between two calls
Tick(d) ==
    /\ ticks < MaxTicks
    /\ now' = now + d
    /\ ticks' = ticks + 1
    /\ burst' = [k \in ClientIds |-> NoBurst]
    /\ result' = NoResult
    /\ UNCHANGED <<config, buckets, life, pending, responses>>
    /\ UNCHANGED httpVars
    /\ UNCHANGED tokenVars

Next ==
    \/ \E clientId \in ClientIds : isAllowed(clientId)
    \/ \E clientId \in ClientIds : resetBucket(clientId)
    \/ \E d \in Delays(config) : Tick(d)

Spec == Init /\ [][Next]_vars

-----------------------------------------------------------------------------
(* The limiter behind the HTTP middleware: requests arrive concurrently and  *)
(* the event loop runs the synchronous middleware of one request at a time   *)

\* a request of the client reaches the server and waits for its turn
Arrive(clientId) ==
    /\ TotalPending(pending) < MaxPending
    /\ TotalChecks(life) + TotalPending(pending) < MaxCalls(config)
    /\ pending' = [pending EXCEPT ![clientId] = @ + 1]
    /\ UNCHANGED <<config, buckets, now, ticks, result, burst, life, responses>>
    /\ UNCHANGED httpVars
    /\ UNCHANGED tokenVars

\* generalLimiterTokenBucket / authLimiterTokenBucket / writeLimiterTokenBucket /
\* healthCheckLimiterTokenBucket for one waiting request: isAllowed, then either
\* res.status(429) or next(); there is no await between the two
limiterMiddleware(clientId) ==
    /\ pending[clientId] > 0
    /\ TotalChecks(life) < MaxCalls(config)
    /\ LET call == isAllowedCall(buckets, clientId, config, now)
       IN  /\ buckets' = call.buckets
           /\ result' = [op |-> "isAllowed", clientId |-> clientId, at |-> now,
                         prev |-> prevOf(buckets, clientId),
                         afterReset |-> FALSE,
                         refilled |-> call.refilled,
                         allowed |-> call.decision.allowed,
                         tokensRemaining |-> call.decision.tokensRemaining,
                         resetTime |-> call.decision.resetTime]
           /\ burst' = [burst EXCEPT ![clientId] =
                            burstAfter(@, buckets, clientId, call, now,
                                       pending[clientId])]
           /\ life' = [life EXCEPT ![clientId] = lifeAfter(@, call, now)]
           /\ responses' = [responses EXCEPT ![clientId] =
                                IF call.decision.allowed
                                THEN [@ EXCEPT !.next = @ + 1]
                                ELSE [@ EXCEPT !.tooMany = @ + 1]]
    /\ pending' = [pending EXCEPT ![clientId] = @ - 1]
    /\ UNCHANGED <<config, now, ticks>>
    /\ UNCHANGED httpVars
    /\ UNCHANGED tokenVars

\* while requests wait, the clock moves on in slices of the token interval
NextConc ==
    \/ \E clientId \in ClientIds : Arrive(clientId)
    \/ \E clientId \in ClientIds : limiterMiddleware(clientId)
    \/ Tick(Slice(config))

\* the module-level authBucket limiter, as rateLimiter.ts constructs it
InitConc == Constructed(authBucket)

SpecConc == InitConc /\ [][NextConc]_vars

-----------------------------------------------------------------------------
(* The general limiter used by one client that stays away for half a window *)

\* no request of the client arrives for d milliseconds
StayAway(d) ==
    /\ ticks < MaxAway
    /\ now' = now + d
    /\ ticks' = ticks + 1
    /\ burst' = [k \in ClientIds |-> NoBurst]
    /\ result' = NoResult
    /\ UNCHANGED <<config, buckets, life, pending, responses>>
    /\ UNCHANGED httpVars
    /\ UNCHANGED tokenVars

NextGeneral ==
    \/ isAllowed("1.2.3.4")
    \/ StayAway(HalfWindow(config))

\* the module-level generalBucket limiter, as rateLimiter.ts constructs it
InitGeneral == Constructed(generalBucket)

SpecGeneral == InitGeneral /\ [][NextGeneral]_vars

-----------------------------------------------------------------------------
(* The limiter middlewares of rateLimiter.ts *)

\* req.ip || 'unknown'
clientIdOf(ip) == IF ip = "" THEN "unknown" ELSE ip

\* the body of res.status(429).json({error, retryAfter: result.resetTime})
tooManyBody(p, decision) ==
    [error |-> tooManyError(p), retryAfter |-> decision.resetTime]

\* RateLimit-Reset taken from the clock alone
resetHeaderNow(decision, t) == FloorDiv(t, 1000)

\* Math.floor(Date.now() / 1000) + result.resetTime
resetHeader(decision, t) == FloorDiv(t, 1000) + decision.resetTime

\* a refusal without the return: next() is called after the 429 was sent
afterHeadersFallThrough(decision) ==
    IF ~decision.allowed THEN <<"status", "json", "next">> ELSE <<"next">>

\* what the middleware does after the headers are set: res.status(429).json(..)
\* and return, or next()
afterHeaders(decision) ==
    IF ~decision.allowed THEN <<"status", "json">> ELSE <<"next">>

\* one of generalLimiterTokenBucket, authLimiterTokenBucket,
\* writeLimiterTokenBucket, healthCheckLimiterTokenBucket run on (req, res, next)
\* at time t: the store of its limiter afterwards and what it did to res and next
limiterTokenBucket(p, store, ip, t) ==
    LET call     == isAllowedCall(store, clientIdOf(ip), bucketOf(p), t)
        decision == call.decision
    IN  [buckets |-> call.buckets,
         pass    |-> [policy     |-> p,
                      clientId   |-> clientIdOf(ip),
                      decision   |-> decision,
                      limit      |-> limitHeader(p),
                      remaining  |-> decision.tokensRemaining,
                      reset      |-> resetHeader(decision, t),
                      status     |-> IF decision.allowed THEN 0 ELSE 429,
                      body       |-> IF decision.allowed
                                     THEN [error |-> "", retryAfter |-> 0]
                                     ELSE tooManyBody(p, decision),
                      steps      |-> <<"setHeader RateLimit-Limit",
                                       "setHeader RateLimit-Remaining",
                                       "setHeader RateLimit-Reset">>
                                     \o afterHeaders(decision)]]

\* one buckets Map shared by all the limiter instances
withBucketsShared(ls, p, store) == [q \in Policies |-> store]

\* the limiters after the instance of policy p updated its own buckets Map
\* (private buckets = new Map() is a field of each instance)
withBuckets(ls, p, store) == [ls EXCEPT ![p] = store]

\* the number of times a middleware called next()
nextCalls(pass) == Cardinality({i \in DOMAIN pass.steps : pass.steps[i] = "next"})

\* only the limiter of policy p has been used so far, and only for this client
OnlyUser(p, ip) ==
    \A q \in Policies : \A k \in DOMAIN limiters[q] :
        q = p /\ k = clientIdOf(ip)

\* a middleware called on its own, as (req, res, next), by its single client
invokeAlone(p, ip) ==
    /\ OnlyUser(p, ip)
    /\ LET run == limiterTokenBucket(p, limiters[p], ip, now)
       IN  /\ limiters' = withBuckets(limiters, p, run.buckets)
           /\ exchange' = [class |-> "direct", ip |-> ip, at |-> now,
                           consulted |-> <<run.pass>>,
                           handled |-> nextCalls(run.pass) > 0]
    /\ UNCHANGED <<now, ticks, requests>>
    /\ UNCHANGED callVars
    /\ UNCHANGED tokenVars

\* the client of the middleware under test stays away for a while
stayAwayFrom(p) ==
    /\ \A q \in Policies \ {p} : limiters[q] = <<>>
    /\ \E d \in Delays(bucketOf(p)) : StayAway(d)

NextMiddleware ==
    \/ \E p \in Policies : \E ip \in Ips : invokeAlone(p, ip)
    \/ \E p \in Policies : stayAwayFrom(p)

\* rateLimiter.ts loaded: the four limiters constructed, no request served
InitMiddleware == Constructed(generalBucket)

SpecMiddleware == InitMiddleware /\ [][NextMiddleware]_vars

-----------------------------------------------------------------------------
(* The four limiters of rateLimiter.ts used side by side *)

\* any of the middlewares called as (req, res, next) for any client
invoke(p, ip) ==
    /\ requests < MaxInvocations
    /\ requests' = requests + 1
    /\ LET run == limiterTokenBucket(p, limiters[p], ip, now)
       IN  /\ limiters' = withBuckets(limiters, p, run.buckets)
           /\ exchange' = [class |-> "direct", ip |-> ip, at |-> now,
                           consulted |-> <<run.pass>>,
                           handled |-> nextCalls(run.pass) > 0]
    /\ UNCHANGED <<now, ticks>>
    /\ UNCHANGED callVars
    /\ UNCHANGED tokenVars

NextLimiters ==
    \/ \E p \in Policies : \E ip \in Ips : invoke(p, ip)
    \/ StayAway(MsPerToken(authBucket))

SpecLimiters == InitMiddleware /\ [][NextLimiters]_vars

-----------------------------------------------------------------------------
(* The express application: which limiter middlewares a request passes *)

\* the endpoint classes
Classes == {"general", "auth", "write", "health"}

\* the limiter middlewares express runs, in this order, before the handlers of
\* a route of the class:
\*   general  any route under /api          app.use('/api', generalLimiterTokenBucket)
\*   auth     POST /api/users/register and /login, behind the /api mount
\*   write    POST, PUT and DELETE routes under /api: the routers mount no
\*            limiter of their own
\*   health   app.get('/health', healthCheckLimiterTokenBucket, ...)
routeOf(class) ==
    CASE class = "general" -> <<"general">>
      [] class = "auth"    -> <<"general", "auth">>
      [] class = "write"   -> <<"general">>
      [] class = "health"  -> <<"health">>

\* a chain in which every middleware runs, whatever the ones before it did
RECURSIVE throughEvery(_, _, _, _)
throughEvery(chain, ls, ip, t) ==
    IF chain = <<>>
    THEN [limiters |-> ls, consulted |-> <<>>, handled |-> TRUE]
    ELSE LET run  == limiterTokenBucket(Head(chain), ls[Head(chain)], ip, t)
             ls1  == withBuckets(ls, Head(chain), run.buckets)
             rest == throughEvery(Tail(chain), ls1, ip, t)
         IN  [limiters  |-> rest.limiters,
              consulted |-> <<run.pass>> \o rest.consulted,
              handled   |-> nextCalls(run.pass) > 0 /\ rest.handled]

\* a request passed down a chain of limiter middlewares: each one runs only if
\* the one before it called next(); the route's own handlers run if all did
RECURSIVE through(_, _, _, _)
through(chain, ls, ip, t) ==
    IF chain = <<>>
    THEN [limiters |-> ls, consulted |-> <<>>, handled |-> TRUE]
    ELSE LET run == limiterTokenBucket(Head(chain), ls[Head(chain)], ip, t)
             ls1 == withBuckets(ls, Head(chain), run.buckets)
         IN  IF nextCalls(run.pass) = 0
             THEN [limiters |-> ls1, consulted |-> <<run.pass>>, handled |-> FALSE]
             ELSE LET rest == through(Tail(chain), ls1, ip, t)
                  IN  [limiters  |-> rest.limiters,
                       consulted |-> <<run.pass>> \o rest.consulted,
                       handled   |-> rest.handled]

\* the server handles one request of an endpoint class
request(class, ip) ==
    /\ requests < MaxRequests
    /\ requests' = requests + 1
    /\ LET served == through(routeOf(class), limiters, ip, now)
       IN  /\ limiters' = served.limiters
           /\ exchange' = [class |-> class, ip |-> ip, at |-> now,
                           consulted |-> served.consulted,
                           handled |-> served.handled]
    /\ UNCHANGED <<now, ticks>>
    /\ UNCHANGED callVars
    /\ UNCHANGED tokenVars

NextApp ==
    \/ \E class \in Classes : \E ip \in Ips : request(class, ip)
    \/ StayAway(MsPerToken(authBucket))

SpecApp == InitMiddleware /\ [][NextApp]_vars

-----------------------------------------------------------------------------
(* One client that keeps calling the API: routes under /api, and the login   *)
(* and register routes behind both the general and the auth limiter          *)

\* the server handles one request of an endpoint class, however many it has
\* handled before
serve(class, ip) ==
    /\ LET served == through(routeOf(class), limiters, ip, now)
       IN  /\ limiters' = served.limiters
           /\ exchange' = [class |-> class, ip |-> ip, at |-> now,
                           consulted |-> served.consulted,
                           handled |-> served.handled]
    /\ UNCHANGED <<now, ticks, requests>>
    /\ UNCHANGED callVars
    /\ UNCHANGED tokenVars

NextChain ==
    \/ \E class \in {"general", "auth"} : serve(class, "1.2.3.4")
    \/ StayAway(MsPerToken(authBucket))

SpecChain == InitMiddleware /\ [][NextChain]_vars

-----------------------------------------------------------------------------
(* TokenService: every await on the database is a point where other calls run *)

\* a call that holds nothing yet
NoCall ==
    [op |-> "none", pc |-> "none", token |-> NotAJwt, user |-> 0, expiresAt |-> 0,
     found |-> <<>>, afterRevoke |-> FALSE, afterLogoutAll |-> FALSE]

\* the refresh tokens a client can present: those ever stored or handed out,
\* and a string that is no token
Presentable ==
    DOMAIN db.records \cup history.issued \cup {NotAJwt}

\* a new call may start
MayStart ==
    /\ history.ops < MaxOps
    /\ Cardinality(tokenCalls) < MaxInFlight

\* generateTokens(userId, email) up to its await: both JWTs are signed and
\* expiresAt is computed
generateTokens(userId) ==
    /\ MayStart
    /\ userId \in db.users
    /\ LET call == [NoCall EXCEPT !.op = "generateTokens", !.pc = "create",
                                  !.token = jwtSign(userId, RefreshTokenSeconds, now),
                                  !.user = userId,
                                  !.expiresAt = now + RefreshRecordMs]
       IN  /\ call \notin tokenCalls
           /\ tokenCalls' = tokenCalls \cup {call}
    /\ history' = [history EXCEPT !.ops = @ + 1]
    /\ UNCHANGED <<db, outcome, now, ticks>>
    /\ UNCHANGED callVars
    /\ UNCHANGED httpVars

\* storeRefreshTokenInDB: the create succeeds unless the token is already
\* stored (unique index) or the user is gone (foreign key); generateTokens
\* then returns {jwtToken, refreshToken}
storeRefreshTokenInDB(call) ==
    /\ call \in tokenCalls
    /\ call.op = "generateTokens"
    /\ tokenCalls' = tokenCalls \ {call}
    /\ IF call.token \in DOMAIN db.records \/ call.user \notin db.users
       THEN /\ outcome' = [NoOutcome EXCEPT !.op = "generateTokens",
                                            !.token = call.token, !.user = call.user,
                                            !.status = 500,
                                            !.message = "Failed to store refresh token"]
            /\ UNCHANGED <<db, history>>
       ELSE /\ db' = [db EXCEPT !.records =
                          create(@, call.token, call.user, call.expiresAt)]
            /\ outcome' = [NoOutcome EXCEPT !.op = "generateTokens",
                                            !.token = call.token, !.user = call.user,
                                            !.ok = TRUE,
                                            !.returns = {"jwtToken", "refreshToken"}]
            /\ history' = [history EXCEPT !.issued = @ \cup {call.token}]
    /\ UNCHANGED <<now, ticks>>
    /\ UNCHANGED callVars
    /\ UNCHANGED httpVars

\* verifyRefreshToken(token) up to its await: jwt.verify throws, which the
\* catch turns into 401 'Invalid refresh token', or the lookup is sent
verifyRefreshToken(token) ==
    /\ MayStart
    /\ history' = [history EXCEPT !.ops = @ + 1]
    /\ LET call == [NoCall EXCEPT !.op = "verifyRefreshToken", !.pc = "findUnique",
                                  !.token = token,
                                  !.afterRevoke = token \in history.revoked,
                                  !.afterLogoutAll = token \in history.swept]
       IN  IF jwtVerify(token, now)
           THEN /\ call \notin tokenCalls
                /\ tokenCalls' = tokenCalls \cup {call}
                /\ UNCHANGED outcome
           ELSE /\ outcome' = [NoOutcome EXCEPT !.op = "verifyRefreshToken",
                                                !.token = token,
                                                !.status = 401,
                                                !.message = "Invalid refresh token",
                                                !.afterRevoke = call.afterRevoke,
                                                !.afterLogoutAll = call.afterLogoutAll]
                /\ UNCHANGED tokenCalls
    /\ UNCHANGED <<db, now, ticks>>
    /\ UNCHANGED callVars
    /\ UNCHANGED httpVars

\* the database answers the findUnique of a verifyRefreshToken call
verifyFound(call) ==
    /\ call \in tokenCalls
    /\ call.op = "verifyRefreshToken"
    /\ call.pc = "findUnique"
    /\ tokenCalls' = (tokenCalls \ {call})
           \cup {[call EXCEPT !.pc = "checks",
                              !.found = findUnique(db.records, call.token)]}
    /\ UNCHANGED <<db, outcome, history, now, ticks>>
    /\ UNCHANGED callVars
    /\ UNCHANGED httpVars

\* verifyRefreshToken resumes after its await: the checks on the record, then
\* return {id: decoded.id, email: decoded.email}
verifyChecks(call) ==
    /\ call \in tokenCalls
    /\ call.op = "verifyRefreshToken"
    /\ call.pc = "checks"
    /\ tokenCalls' = tokenCalls \ {call}
    /\ LET v == verdict(call.found, call.token, now)
       IN  /\ outcome' = [NoOutcome EXCEPT !.op = "verifyRefreshToken",
                                       !.token = call.token,
                                       !.user = IF v.ok THEN call.token.id ELSE 0,
                                       !.ok = v.ok, !.status = v.status,
                                       !.message = v.message,
                                       !.returns = IF v.ok THEN {"id", "email"} ELSE {},
                                       !.found = call.found # <<>>,
                                       !.afterRevoke = call.afterRevoke,
                                       !.afterLogoutAll = call.afterLogoutAll,
                                       !.again = v.ok /\ call.token \in history.passed]
           /\ history' = [history EXCEPT !.passed =
                              IF v.ok THEN @ \cup {call.token} ELSE @]
    /\ db' = [db EXCEPT !.records = afterVerify(@, call.token, now)]
    /\ UNCHANGED <<now, ticks>>
    /\ UNCHANGED callVars
    /\ UNCHANGED httpVars

\* revokeRefreshToken(token) up to its second await: findUnique has answered;
\* null is 401 'Refresh token not found', otherwise the update is sent
revokeRefreshToken(token) ==
    /\ MayStart
    /\ history' = [history EXCEPT !.ops = @ + 1]
    /\ LET call == [NoCall EXCEPT !.op = "revokeRefreshToken", !.pc = "update",
                                  !.token = token]
       IN  IF findUnique(db.records, token) # <<>>
           THEN /\ call \notin tokenCalls
                /\ tokenCalls' = tokenCalls \cup {call}
                /\ UNCHANGED outcome
           ELSE /\ outcome' = [NoOutcome EXCEPT !.op = "revokeRefreshToken",
                                                !.token = token,
                                                !.status = 401,
                                                !.message = "Refresh token not found"]
                /\ UNCHANGED tokenCalls
    /\ UNCHANGED <<db, now, ticks>>
    /\ UNCHANGED callVars
    /\ UNCHANGED httpVars

\* the update of revokeRefreshToken: it sets revokedAt and the call returns
\* {success: true}; a record deleted in between makes prisma throw, which the
\* catch turns into 500 'Failed to revoke refresh token'
revokeUpdate(call) ==
    /\ call \in tokenCalls
    /\ call.op = "revokeRefreshToken"
    /\ tokenCalls' = tokenCalls \ {call}
    /\ IF call.token \in DOMAIN db.records
       THEN /\ db' = [db EXCEPT !.records = update(@, call.token, now)]
            /\ outcome' = [NoOutcome EXCEPT !.op = "revokeRefreshToken",
                                            !.token = call.token, !.ok = TRUE,
                                            !.found = TRUE,
                                            !.returns = {"success"}]
            /\ history' = [history EXCEPT !.revoked = @ \cup {call.token}]
       ELSE /\ outcome' = [NoOutcome EXCEPT !.op = "revokeRefreshToken",
                                            !.token = call.token, !.status = 500,
                                            !.message = "Failed to revoke refresh token"]
            /\ UNCHANGED <<db, history>>
    /\ UNCHANGED <<now, ticks>>
    /\ UNCHANGED callVars
    /\ UNCHANGED httpVars

\* revokeAllUserTokens(userId): one updateMany, then
\* return {success: true, revokedCount: result.count}
revokeAllUserTokens(userId) ==
    /\ history.ops < MaxOps
    /\ db' = [db EXCEPT !.records = updateMany(@, userId, now)]
    /\ outcome' = [NoOutcome EXCEPT !.op = "revokeAllUserTokens",
                                    !.user = userId, !.ok = TRUE,
                                    !.returns = {"success", "revokedCount"},
                                    !.count = Cardinality(matching(db.records, userId))]
    /\ history' = [history EXCEPT
                      !.ops = @ + 1,
                      !.logoutAlls = @ + 1,
                      !.swept = @ \cup {t \in history.issued : t.id = userId}]
    /\ UNCHANGED <<tokenCalls, now, ticks>>
    /\ UNCHANGED callVars
    /\ UNCHANGED httpVars

\* UserService.deleteUserById(id): prisma.user.delete, which cascades to the
\* user's refresh-token records
deleteUserById(userId) ==
    /\ history.ops < MaxOps
    /\ userId \in db.users
    /\ db' = [users |-> db.users \ {userId},
              records |-> deleteCascade(db.records, userId)]
    /\ history' = [history EXCEPT !.ops = @ + 1]
    /\ UNCHANGED <<tokenCalls, outcome, now, ticks>>
    /\ UNCHANGED callVars
    /\ UNCHANGED httpVars

\* the refreshAccessToken controller, given the fields verifyRefreshToken
\* returned: const {jwtToken} = ...; res.status(200).json({.., data: {jwtToken}});
\* a field that is undefined is left out of the JSON body
refreshAccessToken(returned) ==
    [status |-> 200, data |-> {"jwtToken"} \cap returned]

\* the waits between two calls: a second, and the lifetime of a refresh token
TokenDelays == {1000, RefreshRecordMs}

NextTokens ==
    \/ \E userId \in Users : generateTokens(userId)
    \/ \E call \in tokenCalls : storeRefreshTokenInDB(call)
    \/ \E token \in Presentable : verifyRefreshToken(token)
    \/ \E call \in tokenCalls : verifyFound(call)
    \/ \E call \in tokenCalls : verifyChecks(call)
    \/ \E token \in Presentable : revokeRefreshToken(token)
    \/ \E call \in tokenCalls : revokeUpdate(call)
    \/ \E userId \in Users : revokeAllUserTokens(userId)
    \/ \E userId \in Users : deleteUserById(userId)
    \/ \E d \in TokenDelays : StayAway(d)

\* the server started with its users registered and no refresh token stored
InitTokens == Constructed(authBucket)

SpecTokens == InitTokens /\ [][NextTokens]_vars

-----------------------------------------------------------------------------
(* ECMAScript Number: IEEE-754 binary64 with round-to-nearest, ties-to-even. *)
(* A natural number is a sequence of binary digits, least significant first, *)
(* without leading zeros; a Number >= 0 is [m, e] with value m * 2^e, where  *)
(* m is <<>> (zero, e = 0) or has exactly 53 digits. The limiter's values    *)
(* are never negative, subnormal, infinite or NaN.                           *)

\* digits of the significand
Precision == 53

\* the i-th binary digit of a (1 = least significant)
Bit(a, i) == IF i >= 1 /\ i <= Len(a) THEN a[i] ELSE 0

\* a without its leading zeros
Trim(a) ==
    IF \A i \in 1..Len(a) : a[i] = 0 THEN <<>>
    ELSE SubSeq(a, 1, CHOOSE i \in 1..Len(a) :
                          a[i] = 1 /\ \A j \in (i + 1)..Len(a) : a[j] = 0)

\* the binary digits of an integer n >= 0
RECURSIVE BitsOf(_)
BitsOf(n) == IF n = 0 THEN <<>> ELSE <<n % 2>> \o BitsOf(n \div 2)

\* the integer with binary digits a (it must fit the integers of the checker)
RECURSIVE IntOf(_)
IntOf(a) == IF a = <<>> THEN 0 ELSE a[1] + 2 * IntOf(Tail(a))

\* a * 2^k
ShiftLeft(a, k) ==
    IF a = <<>> THEN <<>> ELSE [i \in 1..k |-> 0] \o a

\* digits taken in one go by the digit-by-digit operators
Chunk == 8

\* the binary digits i..j of the number whose digit k has the weight 2^(k-1)
\* and the (not necessarily binary) value cols[k], and the carry out of digit
\* j, given the carry into digit i
RECURSIVE PropagateDigits(_, _, _, _)
PropagateDigits(cols, i, j, carry) ==
    IF i > j THEN [bits |-> <<>>, carry |-> carry]
    ELSE LET After(digit, high) ==
                 [bits |-> <<digit>> \o high.bits, carry |-> high.carry]
         IN  After((cols[i] + carry) % 2,
                   PropagateDigits(cols, i + 1, j, (cols[i] + carry) \div 2))

\* all binary digits of that number from digit i on, a chunk at a time
RECURSIVE Propagate(_, _, _)
Propagate(cols, i, carry) ==
    IF i > Len(cols)
    THEN BitsOf(carry)
    ELSE LET j == IF i + Chunk - 1 < Len(cols) THEN i + Chunk - 1 ELSE Len(cols)
             Then(low) == low.bits \o Propagate(cols, j + 1, low.carry)
         IN  Then(PropagateDigits(cols, i, j, carry))

\* a + b
AddBits(a, b) ==
    LET n == IF Len(a) > Len(b) THEN Len(a) ELSE Len(b)
    IN  Propagate([i \in 1..n |-> Bit(a, i) + Bit(b, i)], 1, 0)

\* a - b for a >= b: a plus the two's complement of b, without the carry out
SubBits(a, b) ==
    LET n == Len(a)
    IN  Trim(SubSeq(Propagate([i \in 1..n |-> a[i] + 1 - Bit(b, i)], 1, 1), 1, n))

\* a >= b, for a and b without leading zeros
GeqBits(a, b) ==
    IF Len(a) # Len(b) THEN Len(a) > Len(b)
    ELSE \/ a = b
         \/ \E i \in 1..Len(a) :
                /\ a[i] > b[i]
                /\ \A j \in (i + 1)..Len(a) : a[j] = b[j]

\* a * b: digit k of the product collects the pairs a[i] * b[k + 1 - i]
MulBits(a, b) ==
    IF a = <<>> \/ b = <<>> THEN <<>>
    ELSE Trim(Propagate([k \in 1..(Len(a) + Len(b) - 1) |->
                            Cardinality({i \in 1..Len(a) :
                                            a[i] = 1 /\ Bit(b, k + 1 - i) = 1})],
                        1, 0))

\* a with its digits in the opposite order
Reverse(a) == [i \in 1..Len(a) |-> a[Len(a) + 1 - i]]

\* long division by d >= 1 over the digits i down to j of n, starting from the
\* remainder r: the quotient digits (most significant first) and the remainder
RECURSIVE DivDigits(_, _, _, _, _)
DivDigits(n, d, i, j, r) ==
    IF i < j THEN [q |-> <<>>, r |-> r]
    ELSE LET After(digit, low) == [q |-> <<digit>> \o low.q, r |-> low.r]
             Digit(r2, fits, less) ==
                 After(IF fits THEN 1 ELSE 0,
                       DivDigits(n, d, i - 1, j, IF fits THEN less ELSE r2))
             Step(r2) == Digit(r2, GeqBits(r2, d), SubBits(r2, d))
         IN  Step(Trim(<<n[i]>> \o r))

\* long division of n by d over the digits i down to 1, a chunk at a time
RECURSIVE DivFrom(_, _, _, _)
DivFrom(n, d, i, r) ==
    IF i = 0 THEN [q |-> <<>>, r |-> r]
    ELSE LET j == IF i > Chunk THEN i - Chunk + 1 ELSE 1
             Both(high, low) == [q |-> high.q \o low.q, r |-> low.r]
             Then(high) == Both(high, DivFrom(n, d, j - 1, high.r))
         IN  Then(DivDigits(n, d, i, j, r))

\* floor(n / d) and n mod d, for n with at least as many digits as d
DivBits(n, d) ==
    LET skip == Len(d) - 1
        Result(top) == [q |-> Trim(Reverse(top.q)), r |-> top.r]
    IN  Result(DivFrom(n, d, Len(n) - skip,
                       Trim(SubSeq(n, Len(n) - skip + 1, Len(n)))))

\* some digit of a is 1
AnyBit(a) == \E i \in 1..Len(a) : a[i] = 1

\* the Number nearest to m * 2^e (plus a positive amount below one unit of m
\* when sticky), ties to even
RoundToNumber(m, e, sticky) ==
    LET len == Len(m)
        cut == Len(m) - Precision
        Carried(sum) ==
            IF Len(sum) > Precision
            THEN [m |-> SubSeq(sum, 2, Len(sum)), e |-> e + cut + 1]
            ELSE [m |-> sum, e |-> e + cut]
        Rounded(kept, half, rest) ==
            Carried(IF half /\ (rest \/ kept[1] = 1)
                    THEN AddBits(kept, <<1>>)
                    ELSE kept)
    IN  IF len = 0 THEN [m |-> <<>>, e |-> 0]
        ELSE IF len <= Precision
        THEN [m |-> ShiftLeft(m, Precision - len), e |-> e - (Precision - len)]
        ELSE Rounded(SubSeq(m, cut + 1, len),
                     m[cut] = 1,
                     sticky \/ AnyBit(SubSeq(m, 1, cut - 1)))

\* the Number of an integer n >= 0
NumberOf(n) == RoundToNumber(BitsOf(n), 0, FALSE)

\* x + y
NumberAdd(x, y) ==
    IF x.m = <<>> THEN y
    ELSE IF y.m = <<>> THEN x
    ELSE LET e == IF x.e < y.e THEN x.e ELSE y.e
         IN  RoundToNumber(AddBits(ShiftLeft(x.m, x.e - e), ShiftLeft(y.m, y.e - e)),
                           e, FALSE)

\* x >= y
NumberGeq(x, y) ==
    IF y.m = <<>> THEN TRUE
    ELSE IF x.m = <<>> THEN FALSE
    ELSE IF x.e # y.e THEN x.e > y.e
    ELSE GeqBits(x.m, y.m)

\* x - y for x >= y
NumberSub(x, y) ==
    IF y.m = <<>> THEN x
    ELSE LET e == IF x.e < y.e THEN x.e ELSE y.e
         IN  RoundToNumber(SubBits(ShiftLeft(x.m, x.e - e), ShiftLeft(y.m, y.e - e)),
                           e, FALSE)

\* x * y
NumberMul(x, y) ==
    IF x.m = <<>> \/ y.m = <<>> THEN [m |-> <<>>, e |-> 0]
    ELSE RoundToNumber(MulBits(x.m, y.m), x.e + y.e, FALSE)

\* guard digits of a quotient
GuardBits == 3

\* x / y for y > 0
NumberDiv(x, y) ==
    IF x.m = <<>> THEN [m |-> <<>>, e |-> 0]
    ELSE LET Quotient(d) ==
                 RoundToNumber(d.q, x.e - y.e - (Precision + GuardBits), d.r # <<>>)
         IN  Quotient(DivBits(ShiftLeft(x.m, Precision + GuardBits), y.m))

\* Math.min(x, y)
MathMin(x, y) == IF NumberGeq(x, y) THEN y ELSE x

\* Math.floor(x), as an integer
MathFloor(x) ==
    IF x.m = <<>> THEN 0
    ELSE IF x.e >= 0 THEN IntOf(ShiftLeft(x.m, x.e))
    ELSE IF -x.e >= Precision THEN 0
    ELSE IntOf(SubSeq(x.m, 1 - x.e, Precision))

\* Math.ceil(x), as an integer
MathCeil(x) ==
    IF x.m = <<>> THEN 0
    ELSE IF x.e >= 0 THEN IntOf(ShiftLeft(x.m, x.e))
    ELSE IF -x.e >= Precision THEN 1
    ELSE IntOf(SubSeq(x.m, 1 - x.e, Precision))
             + (IF AnyBit(SubSeq(x.m, 1, -x.e)) THEN 1 ELSE 0)

-----------------------------------------------------------------------------
(* The limiter in the arithmetic of the code: tokens, refillRate and the     *)
(* elapsed seconds are Numbers; Date.now() and the returned resetTime and    *)
(* tokensRemaining are integers                                              *)

\* new TokenBucketRateLimiter({capacity: 5, refillRate: 5 / (15 * 60)})
authBucketNumber ==
    [capacity   |-> NumberOf(5),
     refillRate |-> NumberDiv(NumberOf(5), NumberOf(15 * 60))]

\* isAllowed(clientId) at time t, as the code computes it: the store it leaves,
\* the decision it returns, and the tokens right after the refill step
isAllowedCallNumber(store, clientId, cfg, t) ==
    LET bucket      == IF has(store, clientId)
                       THEN store[clientId]
                       ELSE [tokens |-> cfg.capacity, lastRefillTime |-> t]
        timePassed  == NumberDiv(NumberOf(t - bucket.lastRefillTime), NumberOf(1000))
        added       == NumberMul(timePassed, cfg.refillRate)
        \* tokens >= 1: one token is taken (left)
        admit(filled, left) ==
            [buckets  |-> set(store, clientId, [tokens |-> left, lastRefillTime |-> t]),
             decision |-> [allowed         |-> TRUE,
                           tokensRemaining |-> MathFloor(left),
                           resetTime       |->
                               MathCeil(NumberDiv(NumberSub(cfg.capacity, left),
                                                  cfg.refillRate))],
             refilled |-> filled]
        \* tokens < 1
        refuse(filled, timeUntilNextToken) ==
            [buckets  |-> set(store, clientId, [tokens |-> filled, lastRefillTime |-> t]),
             decision |-> [allowed         |-> FALSE,
                           tokensRemaining |-> 0,
                           resetTime       |->
                               MathCeil(NumberMul(timeUntilNextToken, NumberOf(1000)))],
             refilled |-> filled]
        \* the branch taken on the tokens after the refill step
        decide(filled) ==
            IF NumberGeq(filled, NumberOf(1))
            THEN admit(filled, NumberSub(filled, NumberOf(1)))
            ELSE refuse(filled,
                        NumberDiv(NumberSub(NumberOf(1), filled), cfg.refillRate))
    IN  decide(MathMin(cfg.capacity, NumberAdd(bucket.tokens, added)))

\* what is known of a key's throttling: its checks so far, the refusals
\* (time and resetTime) it got since it was last admitted, and its bucket as
\* the last admission left it
NoThrottle == [checks |-> 0, denials |-> {}, since |-> <<>>]

\* the throttling record of a key after one more check
throttleAfter(l, call, clientId, t) ==
    IF call.decision.allowed
    THEN [checks  |-> l.checks + 1,
          denials |-> {},
          since   |-> <<call.buckets[clientId]>>]
    ELSE [checks  |-> l.checks + 1,
          denials |-> l.denials \cup {[at |-> t, resetTime |-> call.decision.resetTime]},
          since   |-> l.since]

\* the clock steps of a client that polls while it is throttled
PollDelays == {8, Slice(authBucket)}

\* time steps by polling, per run
MaxPolls == 2

\* one call of limiter.isAllowed(clientId)
isAllowedNumber(clientId) ==
    /\ life[clientId].checks < MaxCalls(config)
    /\ LET returned(call) ==
               /\ buckets' = call.buckets
               /\ result' = [op |-> "isAllowed", clientId |-> clientId, at |-> now,
                             prev |-> prevOf(buckets, clientId),
                             owed |-> life[clientId].denials,
                             since |-> life[clientId].since,
                             refilled |-> call.refilled,
                             allowed |-> call.decision.allowed,
                             tokensRemaining |-> call.decision.tokensRemaining,
                             resetTime |-> call.decision.resetTime]
               /\ life' = [life EXCEPT ![clientId] =
                                         throttleAfter(@, call, clientId, now)]
       IN  returned(isAllowedCallNumber(buckets, clientId, authBucketNumber, now))
    /\ UNCHANGED <<config, now, ticks, burst, pending, responses>>
    /\ UNCHANGED httpVars
    /\ UNCHANGED tokenVars

\* the client comes back d milliseconds later
poll(d) ==
    /\ ticks < MaxPolls
    /\ now' = now + d
    /\ ticks' = ticks + 1
    /\ result' = NoResult
    /\ UNCHANGED <<config, buckets, burst, life, pending, responses>>
    /\ UNCHANGED httpVars
    /\ UNCHANGED tokenVars

\* a refused client waits until the time one of its refusals told it to:
\* the refusal's time plus its resetTime (milliseconds)
retryAfter(clientId) ==
    /\ \E d \in life[clientId].denials :
           /\ now < d.at + d.resetTime
           /\ now' = d.at + d.resetTime
    /\ result' = NoResult
    /\ UNCHANGED <<config, buckets, ticks, burst, life, pending, responses>>
    /\ UNCHANGED httpVars
    /\ UNCHANGED tokenVars

NextNumber ==
    \/ isAllowedNumber("1.2.3.4")
    \/ \E d \in PollDelays : poll(d)
    \/ retryAfter("1.2.3.4")

\* the module-level authBucket limiter, as rateLimiter.ts constructs it
InitNumber ==
    /\ config = authBucket
    /\ buckets = <<>>
    /\ now = 0
    /\ ticks = 0
    /\ result = NoResult
    /\ burst = [k \in ClientIds |-> NoBurst]
    /\ life = [k \in ClientIds |-> NoThrottle]
    /\ pending = [k \in ClientIds |-> 0]
    /\ responses = [k \in ClientIds |-> [next |-> 0, tooMany |-> 0]]
    /\ limiters = [p \in Policies |-> <<>>]
    /\ exchange = NoExchange
    /\ requests = 0
    /\ db = [users |-> Users, records |-> <<>>]
    /\ tokenCalls = {}
    /\ outcome = NoOutcome
    /\ history = NoHistory

SpecNumber == InitNumber /\ [][NextNumber]_vars

-----------------------------------------------------------------------------
(* Claims *)

\* the last call was isAllowed(k), and the store is as that call left it
Checked(k) == result.op = "isAllowed" /\ result.clientId = k

\* the tokens a check starts from after its refill step, recomputed from the
\* bucket the call found: min(capacity, tokens + elapsedSeconds * refillRate)
RefilledFrom(prev, at) ==
    IF prev = <<>>
    THEN config.capacity
    ELSE Min(config.capacity,
             prev[1].tokens + (at - prev[1].lastRefillTime) * config.refillRate)

\* C1: after every isAllowed and resetBucket call, every stored bucket has
\* 0 <= tokens <= capacity.
C1_BucketBound ==
    \A k \in DOMAIN buckets :
        0 <= buckets[k].tokens /\ buckets[k].tokens <= config.capacity

\* a check refilled an existing bucket by at least one token and drained it to
\* exactly 0
C1_Witness ==
    \E k \in DOMAIN buckets :
        /\ Checked(k)
        /\ buckets[k].tokens = 0
        /\ result.prev # <<>>
        /\ result.prev[1].tokens + (result.at - result.prev[1].lastRefillTime)
               * config.refillRate >= config.unit

\* every check ever made of the key was made at this instant, the first of them
\* created its bucket, and the key was never reset
NeverSeenBefore(k) ==
    /\ burst[k].fresh
    /\ life[k].resets = 0
    /\ life[k].checks = burst[k].checks

\* C2: for a key never seen before, with no time elapsing, the first
\* floor(capacity) consecutive checks are allowed and the next one is denied.
C2_FreshAdmission ==
    \A k \in ClientIds :
        NeverSeenBefore(k) =>
            /\ burst[k].allowed = Min(burst[k].checks, FloorCapacity(config))
            /\ Checked(k) =>
                   (result.allowed <=> burst[k].checks <= FloorCapacity(config))

\* the check right after the floor(capacity) admitted ones was made and denied
C2_Witness ==
    \E k \in ClientIds :
        /\ NeverSeenBefore(k)
        /\ Checked(k)
        /\ burst[k].checks = FloorCapacity(config) + 1
        /\ ~result.allowed

\* C3: without resetBucket, the number of allowed decisions for a key since its
\* bucket was created is at most capacity + refillRate * (time since creation).
C3_RateBound ==
    \A k \in ClientIds :
        (life[k].resets = 0 /\ life[k].firstSeen >= 0) =>
            life[k].allowed * config.unit
                <= config.capacity + config.refillRate * (now - life[k].firstSeen)

\* a key was admitted more often than a full bucket allows, thanks to refill
C3_Witness ==
    \E k \in ClientIds :
        /\ life[k].resets = 0
        /\ life[k].allowed > FloorCapacity(config)
        /\ now > life[k].firstSeen

\* C5: a check made 1 / refillRate seconds after the last check of a bucket
\* drained to 0 tokens is allowed and leaves the bucket at 0 tokens again.
C5_RefillOverTime ==
    \A k \in ClientIds :
        ( /\ Checked(k)
          /\ result.prev # <<>>
          /\ result.prev[1].tokens = 0
          /\ (result.at - result.prev[1].lastRefillTime) * config.refillRate
                 = config.unit )
        => (result.allowed /\ buckets[k].tokens = 0)

C5_Witness ==
    \E k \in ClientIds :
        /\ Checked(k)
        /\ result.prev # <<>>
        /\ result.prev[1].tokens = 0
        /\ (result.at - result.prev[1].lastRefillTime) * config.refillRate
               = config.unit
        /\ result.allowed

\* C6: however long the idle period, the refill never raises tokens above
\* capacity, and the back-to-back checks that follow admit at most
\* floor(capacity) requests.
C6_Clamping ==
    /\ result.op = "isAllowed" => result.refilled <= config.capacity
    /\ \A k \in DOMAIN buckets : buckets[k].tokens <= config.capacity
    /\ \A k \in ClientIds : burst[k].allowed <= FloorCapacity(config)

\* after an idle period longer than a full refill, floor(capacity) checks were
\* admitted and the next one denied
C6_Witness ==
    \E k \in ClientIds :
        /\ Checked(k)
        /\ ~burst[k].fresh
        /\ burst[k].idle >= LongIdle(config)
        /\ burst[k].checks = FloorCapacity(config) + 1
        /\ burst[k].allowed = FloorCapacity(config)
        /\ ~result.allowed

\* the decision and the bucket of a first-ever check of a brand-new key
FirstCheckOutcome(k) ==
    /\ result.allowed
    /\ result.tokensRemaining = FloorDiv(config.capacity - config.unit, config.unit)
    /\ result.resetTime = CeilDiv(config.unit, 1000 * config.refillRate)
    /\ has(buckets, k)
    /\ buckets[k] = [tokens |-> config.capacity - config.unit,
                     lastRefillTime |-> result.at]

\* C8: resetBucket(key) followed by isAllowed(key) returns the decision of a
\* first-ever check (allowed, tokensRemaining = floor(capacity - 1),
\* resetTime = ceil(1 / refillRate)) and leaves tokens = capacity - 1,
\* lastRefillTime = now.
C8_ResetThenCheck ==
    \A k \in ClientIds :
        (Checked(k) /\ (result.afterReset \/ life[k].checks = 1))
            => FirstCheckOutcome(k)

\* a bucket that could not admit any more was reset and then checked
C8_Witness ==
    \E k \in ClientIds :
        /\ Checked(k)
        /\ result.afterReset
        /\ life[k].dropped = "drained"
        /\ result.allowed

\* C10: a check is allowed exactly when the tokens after refill are >= 1; an
\* allowed check subtracts exactly 1, a denied check subtracts nothing.
C10_ConsumeOnlyWhenAllowed ==
    \A k \in ClientIds :
        Checked(k) =>
            LET refilled == RefilledFrom(result.prev, result.at)
            IN  /\ result.allowed <=> refilled >= config.unit
                /\ result.allowed => buckets[k].tokens = refilled - config.unit
                /\ ~result.allowed => buckets[k].tokens = refilled

\* a denied check found a fractional token after a partial refill and kept it
C10_Witness ==
    \E k \in ClientIds :
        /\ Checked(k)
        /\ ~result.allowed
        /\ result.prev # <<>>
        /\ buckets[k].tokens > result.prev[1].tokens
        /\ life[k].allowed > 0

\* the step is a call (isAllowed or resetBucket) for key a
CallFor(a) == life'[a] # life[a]

\* what key b holds in a store: <<>> or its bucket
Held(store, b) == IF has(store, b) THEN <<store[b]>> ELSE <<>>

\* C7: a call for key A leaves the bucket of every other key B (tokens,
\* lastRefillTime, presence) unchanged, so the next decision for B is the same
\* as if the call for A had not happened.
C7_KeyIndependence ==
    [][\A a \in ClientIds : CallFor(a) =>
          \A b \in ClientIds \ {a} :
              /\ Held(buckets', b) = Held(buckets, b)
              /\ isAllowedCall(buckets', b, config, now').decision
                     = isAllowedCall(buckets, b, config, now').decision
              /\ Held(isAllowedCall(buckets', b, config, now').buckets, b)
                     = Held(isAllowedCall(buckets, b, config, now').buckets, b)]_vars

\* a call for one key was made while the other key held a partly used bucket
C7_Witness ==
    \E a \in ClientIds : \E b \in DOMAIN buckets \ {a} :
        /\ result.clientId = a
        /\ result.op \in {"isAllowed", "resetBucket"}
        /\ result.prev # <<>>
        /\ buckets[b].tokens < config.capacity

\* the step is a resetBucket call for key k
ResetFor(k) == life'[k].resets # life[k].resets

\* C9: resetBucket on a key without a bucket leaves the whole store unchanged;
\* on an existing key it removes that key's bucket and nothing else.
C9_ResetFrame ==
    [][\A k \in ClientIds : ResetFor(k) =>
          /\ ~has(buckets, k) => buckets' = buckets
          /\ has(buckets, k) =>
                /\ DOMAIN buckets' = DOMAIN buckets \ {k}
                /\ \A j \in DOMAIN buckets' : buckets'[j] = buckets[j]]_vars

\* resetBucket was called for a key without a bucket while the other key had one
C9_Witness ==
    /\ result.op = "resetBucket"
    /\ result.prev = <<>>
    /\ ~has(buckets, result.clientId)
    /\ buckets # <<>>

\* C4: requests for one key handled at the same instant, in whatever order the
\* event loop takes them (also interleaved with another key's requests), are
\* admitted exactly min(n, floor(t)) times when the bucket held t tokens at the
\* first of them; each admission takes its own token.
C4_NoOverAdmission ==
    \A k \in ClientIds :
        burst[k].checks > 0 =>
            /\ burst[k].allowed
                   = Min(burst[k].checks, FloorDiv(burst[k].held, config.unit))
            /\ has(buckets, k)
            /\ buckets[k].tokens = burst[k].held - burst[k].allowed * config.unit
            /\ buckets[k].tokens >= 0
            /\ responses[k].next = life[k].allowed
            /\ responses[k].tooMany = life[k].checks - life[k].allowed

\* several requests of one key were waiting together, all were handled at the
\* same instant, and the bucket had tokens for some of them only
C4_Witness ==
    \E k \in ClientIds :
        /\ burst[k].queued >= 2
        /\ burst[k].checks >= burst[k].queued
        /\ pending[k] = 0
        /\ burst[k].allowed >= 1
        /\ burst[k].allowed < burst[k].checks
        /\ responses[k].tooMany >= 1

\* C11: every decision of isAllowed has tokensRemaining a non-negative integer
\* <= floor(capacity); it is floor(tokens after consumption) when allowed and 0
\* when denied.
C11_TokensRemainingRange ==
    \A k \in ClientIds :
        Checked(k) =>
            /\ result.tokensRemaining \in 0..FloorCapacity(config)
            /\ result.allowed =>
                   result.tokensRemaining = FloorDiv(buckets[k].tokens, config.unit)
            /\ ~result.allowed => result.tokensRemaining = 0

\* an allowed check left a fractional number of tokens, more than one
C11_Witness ==
    \E k \in ClientIds :
        /\ Checked(k)
        /\ result.allowed
        /\ buckets[k].tokens > config.unit
        /\ buckets[k].tokens % config.unit # 0
        /\ result.tokensRemaining = 1

\* C12: under the auth policy (capacity 5, refillRate 5/900) the first five
\* checks of a key with no elapsed time are allowed with tokensRemaining 4, 3,
\* 2, 1, 0 in that order; the sixth is denied with tokensRemaining 0 and
\* resetTime 180000 milliseconds.
C12_AuthScenario ==
    \A k \in ClientIds :
        (config = authBucket /\ NeverSeenBefore(k) /\ Checked(k)) =>
            /\ burst[k].checks \in 1..5 =>
                   /\ result.allowed
                   /\ result.tokensRemaining = 5 - burst[k].checks
            /\ burst[k].checks = 6 =>
                   /\ ~result.allowed
                   /\ result.tokensRemaining = 0
                   /\ result.resetTime = 180000

\* the sixth back-to-back check of a new key under the auth policy was made
C12_Witness ==
    \E k \in ClientIds :
        /\ config = authBucket
        /\ NeverSeenBefore(k)
        /\ Checked(k)
        /\ burst[k].checks = 6
        /\ burst[k].allowed = 5
        /\ ~result.allowed

\* the check found a bucket with 0 tokens that was last refilled ms earlier
DrainedAndIdleFor(ms) ==
    /\ result.prev # <<>>
    /\ result.prev[1].tokens = 0
    /\ result.at - result.prev[1].lastRefillTime = ms

\* C13: under the general policy (capacity 100, refillRate 100/900), the check
\* that follows 450 seconds without a check of a bucket drained to 0 tokens
\* refills exactly 50 tokens, is allowed and reports tokensRemaining = 49.
C13_GeneralScenario ==
    \A k \in ClientIds :
        (config = generalBucket /\ Checked(k) /\ DrainedAndIdleFor(450 * 1000)) =>
            /\ result.refilled = 50 * config.unit
            /\ result.allowed
            /\ result.tokensRemaining = 49
            /\ buckets[k].tokens = 49 * config.unit

\* the general bucket was drained by 100 admissions, left alone for 450 seconds
\* and checked again
C13_Witness ==
    \E k \in ClientIds :
        /\ config = generalBucket
        /\ Checked(k)
        /\ DrainedAndIdleFor(450 * 1000)
        /\ life[k].allowed = 101
        /\ result.tokensRemaining = 49

\* the last request went through the middleware of policy p only
Passed(p) ==
    /\ exchange.class = "direct"
    /\ Len(exchange.consulted) = 1
    /\ exchange.consulted[1].policy = p

\* C14: when isAllowed returns allowed = false a limiter middleware answers 429
\* with the body {error, retryAfter = resetTime} and never calls next(); when
\* allowed = true it calls next() exactly once and sends no 429.
C14_ShortCircuit ==
    \A p \in Policies :
        Passed(p) =>
            LET pass == exchange.consulted[1]
            IN  /\ ~pass.decision.allowed =>
                       /\ pass.status = 429
                       /\ pass.body.error = tooManyError(p)
                       /\ pass.body.retryAfter = pass.decision.resetTime
                       /\ nextCalls(pass) = 0
                       /\ ~exchange.handled
                /\ pass.decision.allowed =>
                       /\ nextCalls(pass) = 1
                       /\ exchange.handled
                       /\ pass.status # 429
                       /\ \A i \in DOMAIN pass.steps :
                              pass.steps[i] \notin {"status", "json"}

\* the middleware of policy p refused a request, with a retryAfter
RefusedBy(p) ==
    /\ Passed(p)
    /\ ~exchange.consulted[1].decision.allowed
    /\ exchange.consulted[1].status = 429
    /\ exchange.consulted[1].body.retryAfter > 0

\* the health-check middleware, the one with the largest bucket, refused a request
C14_Witness == RefusedBy("health")

\* the number a string of decimal digits denotes
RECURSIVE Decimal(_)
Decimal(digits) ==
    IF digits = <<>> THEN 0
    ELSE 10 * Decimal(SubSeq(digits, 1, Len(digits) - 1)) + digits[Len(digits)]

\* the capacities the policies are documented with
DocumentedCapacity(p) ==
    CASE p = "general" -> 100
      [] p = "auth"    -> 5
      [] p = "write"   -> 20
      [] p = "health"  -> 1000

\* the position of a step in what a middleware did, 0 when it did not do it
StepAt(pass, step) ==
    IF \E i \in DOMAIN pass.steps : pass.steps[i] = step
    THEN CHOOSE i \in DOMAIN pass.steps : pass.steps[i] = step
    ELSE 0

\* C15: on an allowed request each middleware sets, before it calls next(),
\* RateLimit-Limit to its policy's capacity (100, 5, 20, 1000),
\* RateLimit-Remaining to the decision's tokensRemaining and RateLimit-Reset to
\* floor(now / 1000) + the decision's resetTime.
C15_Headers ==
    \A p \in Policies :
        (Passed(p) /\ exchange.consulted[1].decision.allowed) =>
            LET pass == exchange.consulted[1]
            IN  /\ Decimal(pass.limit) = DocumentedCapacity(p)
                /\ Decimal(pass.limit) * bucketOf(p).unit = bucketOf(p).capacity
                /\ pass.remaining = pass.decision.tokensRemaining
                /\ pass.remaining
                       = FloorDiv(limiters[p][pass.clientId].tokens, bucketOf(p).unit)
                /\ pass.reset = FloorDiv(exchange.at, 1000) + pass.decision.resetTime
                /\ \A h \in {"setHeader RateLimit-Limit",
                             "setHeader RateLimit-Remaining",
                             "setHeader RateLimit-Reset"} :
                       /\ StepAt(pass, h) > 0
                       /\ StepAt(pass, h) < StepAt(pass, "next")

\* the health-check middleware admitted a request of a partly used bucket more
\* than a second after the server started
C15_Witness ==
    /\ Passed("health")
    /\ exchange.consulted[1].decision.allowed
    /\ exchange.at >= 1000
    /\ exchange.consulted[1].decision.resetTime > 1
    /\ exchange.consulted[1].remaining < 999
    /\ exchange.consulted[1].reset > exchange.consulted[1].decision.resetTime

\* the step is a check made through the limiter of policy p
CheckThrough(p) ==
    /\ requests' # requests
    /\ \E i \in DOMAIN exchange'.consulted : exchange'.consulted[i].policy = p

\* C16: the general, auth, write and health-check limiters each own a separate
\* bucket store: a check made through one policy leaves the tokens,
\* lastRefillTime and existence of every bucket of every other policy
\* unchanged, also for the same client key.
C16_PolicyIsolation ==
    [][\A p \in Policies :
          (CheckThrough(p) /\ Len(exchange'.consulted) = 1) =>
              \A q \in Policies \ {p} : limiters'[q] = limiters[q]]_vars

\* a client that holds a partly used bucket under another policy was checked
\* through a policy under which it had no bucket before
C16_Witness ==
    \E p \in Policies : \E q \in Policies \ {p} :
        /\ Passed(p)
        /\ exchange.consulted[1].decision.tokensRemaining
               = FloorCapacity(bucketOf(p)) - 1
        /\ has(limiters[q], exchange.consulted[1].clientId)
        /\ limiters[q][exchange.consulted[1].clientId].tokens
               < bucketOf(q).capacity - bucketOf(q).unit

\* the last request was let through by the limiter of policy p for its client
ConsultedAndAllowed(p) ==
    \E i \in DOMAIN exchange.consulted :
        /\ exchange.consulted[i].policy = p
        /\ exchange.consulted[i].clientId = clientIdOf(exchange.ip)
        /\ exchange.consulted[i].decision.allowed

\* C17: a request of the general, auth, write or health-check class reaches its
\* route handler only after the limiter of that class was consulted and
\* returned allowed = true for the request's client key.
C17_EveryClassThrottled ==
    \A class \in Classes :
        (exchange.class = class /\ exchange.handled) => ConsultedAndAllowed(class)

\* the keys isAllowed may be called with: the client keys, and the empty string
AnyKey == ClientIds \cup {""}

\* a decision {allowed, tokensRemaining, resetTime}
WellFormed(decision) ==
    /\ DOMAIN decision = {"allowed", "tokensRemaining", "resetTime"}
    /\ decision.allowed \in BOOLEAN
    /\ decision.tokensRemaining \in Nat
    /\ decision.resetTime \in Nat

\* C18: for every client key (also the empty string and "unknown") and every
\* reachable store, isAllowed returns a well-formed decision; a key without a
\* bucket gets one created on the spot instead of an error.
C18_Total ==
    \A k \in AnyKey :
        LET call == isAllowedCall(buckets, k, config, now)
        IN  /\ WellFormed(call.decision)
            /\ has(call.buckets, k)
            /\ ~has(buckets, k) =>
                   /\ call.buckets[k].lastRefillTime = now
                   /\ call.buckets[k].tokens
                          \in {config.capacity, config.capacity - config.unit}
            /\ \A j \in DOMAIN buckets \ {k} : has(call.buckets, j)

\* the placeholder key "unknown" was checked when it had no bucket (its bucket
\* had been removed before), while the empty string has no bucket either
C18_Witness ==
    /\ Checked("unknown")
    /\ result.prev = <<>>
    /\ result.afterReset
    /\ has(buckets, "unknown")
    /\ ~has(buckets, "")
    /\ WellFormed([allowed |-> result.allowed,
                   tokensRemaining |-> result.tokensRemaining,
                   resetTime |-> result.resetTime])

\* the call that returned last is a verifyRefreshToken(t) that was made after a
\* revokeRefreshToken(t) had returned {success: true}
VerifiedAfterRevoke ==
    outcome.op = "verifyRefreshToken" /\ outcome.afterRevoke

\* C19 (as stated): once revokeRefreshToken(t) has succeeded, every later
\* verifyRefreshToken(t) rejects with the 401 'revoked' AppError, whatever
\* other tokens are generated, verified or revoked afterwards.
C19_RevokedRejectedAsRevoked ==
    VerifiedAfterRevoke =>
        /\ ~outcome.ok
        /\ outcome.status = 401
        /\ outcome.message = "Refresh token has been revoked"

\* C19 (amended): once revokeRefreshToken(t) has succeeded, every later
\* verifyRefreshToken(t) rejects with a 401 AppError and never returns the
\* user; the message is 'Refresh token has been revoked' exactly when the
\* lookup found the record, that is while the JWT has not expired and the
\* record has not been deleted with its user; otherwise it is 'Invalid
\* refresh token' or 'Refresh token not found'.
C19_RevokedNeverAccepted ==
    VerifiedAfterRevoke =>
        /\ ~outcome.ok
        /\ outcome.returns = {}
        /\ outcome.status = 401
        /\ outcome.found => outcome.message = "Refresh token has been revoked"
        /\ ~outcome.found =>
               outcome.message \in {"Invalid refresh token", "Refresh token not found"}

\* a revoked token was presented again after another token had been stored,
\* and was rejected as revoked
C19_Witness ==
    /\ VerifiedAfterRevoke
    /\ outcome.found
    /\ outcome.message = "Refresh token has been revoked"
    /\ \E t \in DOMAIN db.records : t # outcome.token /\ db.records[t].revokedAt = <<>>

\* the step is a revokeAllUserTokens(u) call
LogoutAllFor(u) ==
    /\ history'.logoutAlls # history.logoutAlls
    /\ outcome'.user = u

\* C20: revokeAllUserTokens(u) marks every refresh-token record of user u as
\* revoked and returns revokedCount = the number of u's records; afterwards no
\* refresh token issued to u before the call passes verifyRefreshToken; the
\* records of other users are left as they were.
C20_LogoutAll ==
    /\ [][\A u \in Users : LogoutAllFor(u) =>
             /\ DOMAIN db'.records = DOMAIN db.records
             /\ \A t \in matching(db.records, u) : db'.records[t].revokedAt # <<>>
             /\ outcome'.ok
             /\ outcome'.count = Cardinality(matching(db.records, u))
             /\ \A t \in DOMAIN db.records \ matching(db.records, u) :
                    db'.records[t] = db.records[t]]_vars
    /\ []((outcome.op = "verifyRefreshToken" /\ outcome.afterLogoutAll)
              => (~outcome.ok /\ outcome.status = 401))

\* after a logout from all devices that revoked a record, a token issued to
\* that user before it was presented and rejected, while another user's record
\* is still unrevoked
C20_Witness ==
    /\ outcome.op = "verifyRefreshToken"
    /\ outcome.afterLogoutAll
    /\ outcome.found
    /\ ~outcome.ok
    /\ \E t \in DOMAIN db.records :
           /\ db.records[t].userId # outcome.token.id
           /\ db.records[t].revokedAt = <<>>

\* C21: verifyRefreshToken on a refresh token with a valid signature that is
\* stored, not revoked and not expired returns the user's id and email together
\* with a newly generated access token jwtToken, which the refresh endpoint
\* returns to the client.
C21_RefreshReturnsAccessToken ==
    (outcome.op = "verifyRefreshToken" /\ outcome.ok) =>
        /\ outcome.user = outcome.token.id
        /\ outcome.returns = {"id", "email", "jwtToken"}
        /\ refreshAccessToken(outcome.returns).data = {"jwtToken"}

\* C22: a bucket is created only by the first isAllowed call for a key that has
\* none, with tokens = capacity and lastRefillTime = now, and is removed only by
\* resetBucket of that key; so a key that was checked and never reset stays in
\* the store.
C22_Lifecycle ==
    /\ [][ /\ \A k \in DOMAIN buckets' \ DOMAIN buckets :
                 /\ result'.op = "isAllowed"
                 /\ result'.clientId = k
                 /\ result'.prev = <<>>
                 /\ result'.refilled = config.capacity
                 /\ buckets'[k].lastRefillTime = now
           /\ \A k \in DOMAIN buckets \ DOMAIN buckets' :
                 /\ result'.op = "resetBucket"
                 /\ result'.clientId = k ]_vars
    /\ [](\A k \in ClientIds :
             (life[k].checks > 0 /\ life[k].resets = 0) => has(buckets, k))

\* a check created the bucket of a second key while the first key, checked
\* several times before and never reset, is still stored
C22_Witness ==
    \E k \in ClientIds :
        /\ Checked(k)
        /\ result.prev = <<>>
        /\ TotalResets(life) = 0
        /\ DOMAIN buckets = ClientIds
        /\ TotalChecks(life) >= 3
        /\ now > 0

\* C23: every isAllowed call sets lastRefillTime to the time of the call, on the
\* denied branch as well as on the allowed one: after a check the bucket's
\* lastRefillTime equals that check's timestamp.
C23_StampedByEveryCheck ==
    \A k \in ClientIds :
        Checked(k) =>
            /\ has(buckets, k)
            /\ buckets[k].lastRefillTime = result.at
            /\ result.at = now

\* a denied check of a bucket last refilled earlier moved its lastRefillTime
C23_Witness ==
    \E k \in ClientIds :
        /\ Checked(k)
        /\ ~result.allowed
        /\ result.prev # <<>>
        /\ result.prev[1].lastRefillTime < result.at
        /\ buckets[k].lastRefillTime = result.at

\* C24: the refill step of a check never decreases tokens: the tokens after the
\* refill (before the threshold test) are at least the tokens stored before the
\* check, and equal min(capacity, tokens + elapsedSeconds * refillRate).
C24_RefillMonotone ==
    \A k \in ClientIds :
        (Checked(k) /\ result.prev # <<>>) =>
            /\ result.refilled >= result.prev[1].tokens
            /\ result.refilled =
                   Min(config.capacity,
                       result.prev[1].tokens
                           + (result.at - result.prev[1].lastRefillTime)
                                 * config.refillRate)

\* a check refilled a bucket holding a fraction of a token by less than what
\* the clamp would cut off
C24_Witness ==
    \E k \in ClientIds :
        /\ Checked(k)
        /\ result.prev # <<>>
        /\ result.prev[1].tokens > 0
        /\ result.refilled > result.prev[1].tokens
        /\ result.refilled < config.capacity

\* C25: whenever isAllowed returns allowed = true, resetTime =
\* ceil((capacity - tokens after consumption) / refillRate): the whole number of
\* seconds until the bucket would be full again, not the time until the next
\* token.
C25_AllowedResetTime ==
    \A k \in ClientIds :
        (Checked(k) /\ result.allowed) =>
            /\ buckets[k].tokens = result.refilled - config.unit
            /\ result.resetTime * 1000 * config.refillRate
                   >= config.capacity - buckets[k].tokens
            /\ (result.resetTime - 1) * 1000 * config.refillRate
                   < config.capacity - buckets[k].tokens

\* an allowed check of an existing bucket left a whole token behind, and its
\* resetTime is the positive wait for a full bucket
C25_Witness ==
    \E k \in ClientIds :
        /\ Checked(k)
        /\ result.allowed
        /\ result.prev # <<>>
        /\ buckets[k].tokens >= config.unit
        /\ result.resetTime > 0

\* C26: whenever isAllowed returns allowed = false, resetTime =
\* ceil(((1 - tokens) / refillRate) * 1000): the number of milliseconds until
\* one whole token is available.
C26_DeniedResetTime ==
    \A k \in ClientIds :
        (Checked(k) /\ ~result.allowed) =>
            /\ buckets[k].tokens = result.refilled
            /\ buckets[k].tokens < config.unit
            /\ result.resetTime * config.refillRate
                   >= config.unit - buckets[k].tokens
            /\ (result.resetTime - 1) * config.refillRate
                   < config.unit - buckets[k].tokens

\* a denied check of a bucket holding a fraction of a token: the wait is
\* positive and shorter than the time one whole token takes
C26_Witness ==
    \E k \in ClientIds :
        /\ Checked(k)
        /\ ~result.allowed
        /\ buckets[k].tokens > 0
        /\ result.resetTime > 0
        /\ result.resetTime < MsPerToken(config)

\* C27: the resetTime of a refusal is a sufficient wait: if isAllowed(key)
\* refuses at time T with resetTime R, the next isAllowed(key) made at a time
\* >= T + R milliseconds is allowed, whatever refused checks of the key happen
\* in between.
C27_ResetTimeSuffices ==
    \A k \in ClientIds :
        ( /\ Checked(k)
          /\ \E d \in result.owed : result.at >= d.at + d.resetTime )
        => result.allowed

\* the tokens a bucket would hold at time t had no check been made since the
\* admission that left it as the bucket since
UnpolledTokens(since, cfg, t) ==
    MathMin(cfg.capacity,
            NumberAdd(since.tokens,
                      NumberMul(NumberDiv(NumberOf(t - since.lastRefillTime),
                                          NumberOf(1000)),
                                cfg.refillRate)))

\* C28: refused checks cost nothing: the tokens a bucket holds at a given time
\* after its last allowed check are the same whether zero or many refused
\* checks were made in between, so polling while throttled neither delays nor
\* advances the next admission.
C28_PollingIsFree ==
    \A k \in ClientIds :
        (Checked(k) /\ result.owed # {} /\ result.since # <<>>) =>
            /\ result.refilled
                   = UnpolledTokens(result.since[1], authBucketNumber, result.at)
            /\ result.allowed
                   <=> NumberGeq(UnpolledTokens(result.since[1], authBucketNumber,
                                                result.at),
                                 NumberOf(1))

\* the tokens the general limiter holds for key k right after its refill step
\* at time t, before it decides
GeneralRefilled(ls, k, t) ==
    IF ~has(ls["general"], k)
    THEN generalBucket.capacity
    ELSE Min(generalBucket.capacity,
             ls["general"][k].tokens
                 + (t - ls["general"][k].lastRefillTime) * generalBucket.refillRate)

\* C29: a login or register request is checked by the general limiter first and
\* by the auth limiter second; if the general limiter denies it no auth token is
\* consumed (the auth limiter is not even consulted), and if the general limiter
\* allows it and the auth limiter denies it, the general token stays consumed.
C29_ChainedLimiters ==
    /\ [](exchange.class = "auth" =>
             /\ exchange.consulted[1].policy = "general"
             /\ IF exchange.consulted[1].decision.allowed
                THEN /\ Len(exchange.consulted) = 2
                     /\ exchange.consulted[2].policy = "auth"
                     /\ exchange.handled = exchange.consulted[2].decision.allowed
                ELSE /\ Len(exchange.consulted) = 1
                     /\ ~exchange.handled)
    /\ [][ (exchange'.class = "auth" /\ now' = now) =>
               LET k == clientIdOf(exchange'.ip)
               IN  IF ~exchange'.consulted[1].decision.allowed
                   THEN limiters'["auth"] = limiters["auth"]
                   ELSE /\ has(limiters'["general"], k)
                        /\ limiters'["general"][k].tokens
                               = GeneralRefilled(limiters, k, now) - generalBucket.unit
         ]_<<limiters, exchange>>

\* a login was refused by the general limiter while the auth limiter still held
\* a whole token for the client, which it kept
C29_Witness ==
    /\ exchange.class = "auth"
    /\ ~exchange.consulted[1].decision.allowed
    /\ has(limiters["auth"], clientIdOf(exchange.ip))
    /\ limiters["auth"][clientIdOf(exchange.ip)].tokens >= authBucket.unit

\* a verifyRefreshToken call threw at jwt.verify in this step
VerifyThrows ==
    /\ outcome'.op = "verifyRefreshToken"
    /\ tokenCalls' = tokenCalls
    /\ history'.ops = history.ops + 1
    /\ db'.users = db.users

\* this step is a step of a verifyRefreshToken call
VerifyStep ==
    \/ VerifyThrows
    \/ \E c \in (tokenCalls' \ tokenCalls) \cup (tokenCalls \ tokenCalls') :
           c.op = "verifyRefreshToken"

\* a verifyRefreshToken call returned or threw in this step
VerifyReturns ==
    \/ VerifyThrows
    \/ /\ outcome'.op = "verifyRefreshToken"
       /\ \E c \in tokenCalls \ tokenCalls' :
              c.op = "verifyRefreshToken" /\ c.pc = "checks" /\ c.token = outcome'.token

\* the expiresAt of the token's record has passed; a record deleted with its
\* user had an expiresAt not before the second the token itself expires
ExpiresAtPassed(token) ==
    IF token \in DOMAIN db.records
    THEN now > db.records[token].expiresAt
    ELSE now > token.exp * 1000

\* C30 as stated: verifyRefreshToken changes no refresh-token record, and a
\* token that was issued passes verification every time until it is revoked
\* (revokeRefreshToken / revokeAllUserTokens) or its expiresAt has passed.
C30_PassesUntilRevokedOrExpired ==
    /\ [][VerifyStep => db' = db]_vars
    /\ [][ ( /\ VerifyReturns
             /\ outcome'.token \in history.issued
             /\ outcome'.token \notin history.revoked \cup history.swept
             /\ ~ExpiresAtPassed(outcome'.token) )
           => outcome'.ok ]_vars

\* C30: verifyRefreshToken changes no refresh-token record, so a token is not
\* rotated or consumed by use: it passes verification every time while its
\* record is stored and not revoked, its expiresAt has not passed and the
\* token's own expiry second (exp, never later than expiresAt) is not reached.
C30_NotConsumedByUse ==
    /\ [][VerifyStep => db' = db]_vars
    /\ [][ ( /\ VerifyReturns
             /\ outcome'.token \in DOMAIN db.records
             /\ db.records[outcome'.token].revokedAt = <<>>
             /\ now <= db.records[outcome'.token].expiresAt
             /\ jwtVerify(outcome'.token, now) )
           => outcome'.ok ]_vars

\* a token that had passed verification before passed it again, its record
\* unchanged
C30_Witness ==
    /\ outcome.op = "verifyRefreshToken"
    /\ outcome.ok
    /\ outcome.again
    /\ outcome.token \in DOMAIN db.records
    /\ db.records[outcome.token].revokedAt = <<>>

=============================================================================
